---------------------------- MODULE Spec2Model ----------------------------
(***************************************************************************)
(* The geometry/configuration exchange protocol of the hallr Blender       *)
(* add-on (src/blender_addon/hallr_ffi_utils.py): the library lifecycle    *)
(* (_load_latest_dylib, _ctypes_close_library), the result unpacker        *)
(* (_unpackage_mesh_from_ffi) and the call pipeline                        *)
(* (process_mesh_with_rust / _process_mesh_with_rust), and the graph       *)
(* routines is_loop (hallr_ffi_utils.py) and the two vertex selection      *)
(* operators of hallr_mesh_operators/pure_python.py.                       *)
(*                                                                         *)
(* The specifications share the variables:                                 *)
(*   SpecLib    - sequences of _load_latest_dylib / _ctypes_close_library  *)
(*                calls over a changing target directory;                  *)
(*   SpecUnpack - _unpackage_mesh_from_ffi applied to every bounded        *)
(*                output (vertex count, index buffer, output map);         *)
(*   SpecPackage, SpecCodec - the extractor and the config codec applied   *)
(*                to every bounded input;                                  *)
(*   SpecLoop, SpecSelect, SpecWalk (SpecWalkFair) - the graph routines    *)
(*                applied to every bounded mesh;                           *)
(*   Spec       - whole calls of process_mesh_with_rust, step by step.     *)
(***************************************************************************)
EXTENDS Integers, Sequences, FiniteSets, TLC

(***************************************************************************)
(* Bounds of the model.                                                    *)
(***************************************************************************)
\* files "libhallr_1" .. "libhallr_<NFiles>" may exist in the target directory
NFiles == 2
\* modification times range over 1..MaxMtime
MaxMtime == 2
\* number of LoadLibrary calls that return a handle, per behaviour
MaxLoads == 3
\* the native result holds 0..MaxVerts vertices, indexed 0..MaxVerts-1
MaxVerts == 4
\* the native result's index buffer holds at most MaxIndices indices
MaxIndices == 6
\* a mesh handed to the extractor holds at most MaxPolys faces
MaxPolys == 2
\* a mesh without faces handed to the extractor holds at most MaxEdges edges
MaxEdges == 2
\* a key or a value of a config mapping holds at most MaxStrLen characters
MaxStrLen == 1
\* a mesh handed to is_loop has MaxLoopVerts vertices and at most
\* MaxLoopEdges edges
MaxLoopVerts == 6
MaxLoopEdges == 6
\* a mesh handed to a selection operator has MaxBmVerts vertices and at most
\* MaxBmEdges edges
MaxBmVerts == 4
MaxBmEdges == 4

(***************************************************************************)
(* Python's None for handles and file names.                               *)
(***************************************************************************)
None == 0

VARIABLES
    \* ---- library lifecycle (module globals and their environment) ----
    DEV_MODE,                    \* hallr_ffi_utils.py:17, fixed per process
    HALLR_LIBRARY,               \* hallr_ffi_utils.py:18, a handle or None
    LATEST_LOADED_LIBRARY_FILE,  \* hallr_ffi_utils.py:19, a file or None
    directory,                   \* the target directory: file -> mtime (0: absent), kind
    installed,                   \* kind of the installed <module_dir>/lib/libhallr.* file
    handles,                     \* handle -> [file, closed]: every CDLL object created
    loadResult                   \* outcome of the pending _load_latest_dylib call

libVars == <<DEV_MODE, HALLR_LIBRARY, LATEST_LOADED_LIBRARY_FILE, directory,
             installed, handles, loadResult>>

VARIABLES
    \* ---- the unpacker applied on its own (SpecUnpack) ----
    unpackIn,                    \* arguments of _unpackage_mesh_from_ffi
    unpackOut                    \* what the call did, or NoOutcome before it

unpackVars == <<unpackIn, unpackOut>>

VARIABLES
    \* ---- the extractor applied on its own (SpecPackage) ----
    packIn,                      \* arguments of _package_mesh_data
    packOut,                     \* the buffers returned or the exception raised
    \* ---- the config codec applied on its own (SpecCodec) ----
    codecIn,                     \* a config mapping, as its entries in insertion order
    codecOut                     \* the arrays it encodes to and what they decode to

packVars == <<packIn, packOut>>
codecVars == <<codecIn, codecOut>>

VARIABLES
    \* ---- is_loop and the selection operators applied on their own ----
    bm,                          \* the mesh: vertices, edges, faces, select flags
    selected_before,             \* the select flags when the operator was invoked
    loop_result,                 \* what is_loop returned, "none" before it
    work_queue,                  \* pure_python.py:419, the walk's set of vertices to visit
    already_selected,            \* pure_python.py:418, the walk's set of visited vertices
    gpc                          \* "start", "walk" (inside the while loop) or "done"

graphVars == <<bm, selected_before, loop_result, work_queue, already_selected, gpc>>

\* the variables of the functions that are applied on their own
pureVars == <<unpackVars, packVars, codecVars, graphVars>>

VARIABLES
    \* ---- one call of process_mesh_with_rust (Spec) ----
    pc,                          \* where the call stands; "idle" between calls
    call,                        \* arguments and locals of the call
    rust_result,                 \* the ProcessResult returned by process_geometry
    resultState,                 \* "none", "live" (owned by the native side) or "freed"
    frees,                       \* calls of free_process_results on rust_result
    danglingRead,                \* a field of rust_result was read after its release
    \* ---- the host (bpy.data, bpy.context) ----
    objects,                     \* bpy.data.objects: id -> object
    meshes,                      \* bpy.data.meshes: id -> data block
    active                       \* bpy.context.view_layer.objects.active

callVars == <<pc, call, rust_result, resultState, frees, danglingRead>>
hostVars == <<objects, meshes, active>>

otherThanLib == <<pureVars, callVars, hostVars>>
otherThanUnpack == <<libVars, packVars, codecVars, graphVars, callVars, hostVars>>

vars == <<libVars, pureVars, callVars, hostVars>>

(***************************************************************************)
(* The target directory.  File 0 stands for a file whose name does not     *)
(* start with the prefix; files 1..NFiles are "libhallr_<n>".  A file is   *)
(* "ok" (a library exporting both entry points), "bad" (LoadLibrary raises *)
(* OSError) or "nosym" (it loads, but process_geometry or                  *)
(* free_process_results is not exported: the attribute access of           *)
(* lines 106-114 raises AttributeError).                                   *)
(***************************************************************************)
FileIds == 0..NFiles
Kinds == {"ok", "bad", "nosym"}
Absent == [mtime |-> 0, kind |-> "ok"]
FileStates(f) ==
    {Absent} \cup
    {[mtime |-> m, kind |-> k] : m \in 1..MaxMtime,
                                 k \in IF f = 0 THEN {"ok"} ELSE Kinds}

\* f.startswith(prefix), hallr_ffi_utils.py:71
StartsWithPrefix(f) == f # 0

\* lines 70-71: the regular files of the directory that carry the prefix
ListFiles(dir) == {f \in FileIds : dir[f].mtime > 0 /\ StartsWithPrefix(f)}

\* lines 74 and 79: files.sort(key=mtime, reverse=True); files[0].  The sort is
\* stable, so among files of equal mtime the listing order (any) decides.
LatestFiles(files, dir) ==
    {f \in files : \A g \in files : dir[g].mtime <= dir[f].mtime}

\* line 82: "we already have this exact file loaded"
AlreadyLoaded(lib, latestLoaded, latest) ==
    lib # None /\ latestLoaded = latest

\* line 91: "if HALLR_LIBRARY:" (a CDLL object is always truthy)
ReleaseCached_Never(lib) == FALSE
ReleaseCached(lib) == lib # None

NextHandle == Cardinality(DOMAIN handles) + 1

NoResult == [status |-> "none", lib |-> None, latest |-> None, loaded |-> FALSE]

(***************************************************************************)
(* ctypes.cdll.LoadLibrary(path) followed by the declaration of the two    *)
(* entry points (lines 87-88 / 104, then 106-116).  `dev` tells whether    *)
(* line 88 runs.  A new CDLL object is created whenever LoadLibrary        *)
(* returns; the globals are assigned in the order of the code.             *)
(***************************************************************************)
LoadAndDeclare(file, kind, dev) ==
    CASE kind = "bad" ->
           /\ loadResult' = [status |-> "OSError", lib |-> None,
                             latest |-> file, loaded |-> FALSE]
           /\ UNCHANGED <<HALLR_LIBRARY, LATEST_LOADED_LIBRARY_FILE, handles>>
      [] kind = "nosym" ->
           /\ handles' = handles @@ (NextHandle :> [file |-> file, closed |-> FALSE])
           /\ LATEST_LOADED_LIBRARY_FILE' =
                 IF dev THEN file ELSE LATEST_LOADED_LIBRARY_FILE
           /\ loadResult' = [status |-> "AttributeError", lib |-> None,
                             latest |-> file, loaded |-> TRUE]
           /\ UNCHANGED HALLR_LIBRARY
      [] kind = "ok" ->
           /\ handles' = handles @@ (NextHandle :> [file |-> file, closed |-> FALSE])
           /\ LATEST_LOADED_LIBRARY_FILE' =
                 IF dev THEN file ELSE LATEST_LOADED_LIBRARY_FILE
           /\ HALLR_LIBRARY' = NextHandle
           /\ loadResult' = [status |-> "ok", lib |-> NextHandle,
                             latest |-> file, loaded |-> TRUE]

(***************************************************************************)
(* _load_latest_dylib, lines 61-116, as one step.  loadResult is what the  *)
(* caller sees: the exception raised or the handle returned, the local     *)
(* latest_dylib, and whether LoadLibrary returned a handle in this call.   *)
(***************************************************************************)
LoadLatestDylib ==
    /\ NextHandle <= MaxLoads
    /\ IF DEV_MODE
       THEN IF ListFiles(directory) = {}
            THEN /\ loadResult' = [status |-> "ValueError", lib |-> None,
                                   latest |-> None, loaded |-> FALSE]
                 /\ UNCHANGED <<HALLR_LIBRARY, LATEST_LOADED_LIBRARY_FILE, handles>>
            ELSE \E latest \in LatestFiles(ListFiles(directory), directory) :
                   IF AlreadyLoaded(HALLR_LIBRARY, LATEST_LOADED_LIBRARY_FILE, latest)
                   THEN /\ loadResult' = [status |-> "ok", lib |-> HALLR_LIBRARY,
                                          latest |-> latest, loaded |-> FALSE]
                        /\ UNCHANGED <<HALLR_LIBRARY, LATEST_LOADED_LIBRARY_FILE,
                                       handles>>
                   ELSE LoadAndDeclare(latest, directory[latest].kind, TRUE)
       ELSE IF ReleaseCached(HALLR_LIBRARY)
            THEN /\ loadResult' = [status |-> "ok", lib |-> HALLR_LIBRARY,
                                   latest |-> None, loaded |-> FALSE]
                 /\ UNCHANGED <<HALLR_LIBRARY, LATEST_LOADED_LIBRARY_FILE, handles>>
            ELSE LoadAndDeclare(None, installed, FALSE)
    /\ UNCHANGED <<DEV_MODE, directory, installed>>

(***************************************************************************)
(* _ctypes_close_library(lib), lines 119-124: dlclose in development mode, *)
(* nothing otherwise.  Neither global is touched.                          *)
(***************************************************************************)
CloseInMode(dev) == dev

CtypesCloseLibrary(lib) ==
    /\ handles' = IF CloseInMode(DEV_MODE)
                  THEN [handles EXCEPT ![lib].closed = TRUE]
                  ELSE handles
    /\ UNCHANGED <<DEV_MODE, HALLR_LIBRARY, LATEST_LOADED_LIBRARY_FILE,
                   directory, installed>>


(***************************************************************************)
(* MeshFormat (lines 127-132) and the reserved keys (lines 135-137).  The  *)
(* glyphs of the source are written out as words.                          *)
(***************************************************************************)
TRIANGULATED == "TRIANGULATED"
LINE_WINDOWS == "LINE_WINDOWS"
EDGES == "EDGES"
POINT_CLOUD == "POINT_CLOUD"
MeshFormats == {TRIANGULATED, LINE_WINDOWS, EDGES, POINT_CLOUD}

\* the format tags an output map may carry: the four, or one the host does not know
OutputTags == MeshFormats \cup {"UNKNOWN"}

MESH_FORMAT_TAG == "MESH_FORMAT_TAG"
VERTEX_MERGE_TAG == "VERTEX_MERGE_TAG"
COMMAND_TAG == "COMMAND_TAG"

\* dict.get(key, default) on a mapping held as a function
DictGet(d, key, default) == IF key \in DOMAIN d THEN d[key] ELSE default

(***************************************************************************)
(* A host mesh data block, as far as the unpacker writes it.  A polygon is *)
(* its (loop_start, loop_total) pair; its corners are the vertex indices   *)
(* of those loops.                                                         *)
(***************************************************************************)
NewMesh(name) ==
    [name |-> name, nverts |-> 0, polygons |-> << >>, loops |-> << >>,
     edges |-> << >>, updated |-> FALSE, use_fake_user |-> FALSE,
     removed |-> FALSE]

Face(mesh, k) ==
    LET p == mesh.polygons[k]
    IN  [i \in 1..p.loop_total |-> mesh.loops[p.loop_start + i]]

\* collection.foreach_set(attr, array): the host rejects an array whose
\* length is not that of the collection and then writes nothing (lines 244-250)
ForeachSetAccepts(collectionLen, arrayLen) == collectionLen = arrayLen

\* line 239
FaceCount(index_count) == index_count \div 3

\* line 246: np.arange(0, index_count, 3)
LoopStarts(index_count) == [k \in 1..((index_count + 2) \div 3) |-> 3 * (k - 1)]

\* lines 255-262: edge_vertices[0::2] = index_array[:-1]; [1::2] = index_array[1:]
WindowEdges_Chunked(index_array) ==
    [i \in 1..(Len(index_array) \div 2) |->
        <<index_array[2 * i - 1], index_array[2 * i]>>]
WindowEdges(index_array) ==
    [i \in 1..(Len(index_array) - 1) |-> <<index_array[i], index_array[i + 1]>>]

\* lines 270 and 275: index_array[:edge_count * 2] read as pairs
ChunkEdges(index_array, edge_count) ==
    [i \in 1..edge_count |-> <<index_array[2 * i - 1], index_array[2 * i]>>]

\* the if/elif chain of lines 238, 252, 267, 282, 285
FormatBranch_Lenient(mesh_format) ==
    IF mesh_format \in {TRIANGULATED, LINE_WINDOWS, EDGES} THEN mesh_format
    ELSE POINT_CLOUD
FormatBranch(mesh_format) ==
    IF mesh_format \in MeshFormats THEN mesh_format ELSE "else"

NoOutcome == [exc |-> "pending"]

Outcome(exc, mesh, returned, warned) ==
    [exc |-> exc, mesh |-> mesh, returned |-> returned, warned |-> warned]

\* lines 238-250, on the block that already holds the vertices
UnpackTriangulated(mesh, index_array) ==
    LET index_count == Len(index_array)
        face_count  == FaceCount(index_count)
        added == [mesh EXCEPT
                    !.polygons = [k \in 1..face_count |->
                                    [loop_start |-> 0, loop_total |-> 0]],
                    !.loops = index_array]
        started == [added EXCEPT
                    !.polygons = [k \in 1..face_count |->
                                    [loop_start |-> LoopStarts(index_count)[k],
                                     loop_total |-> 0]]]
        done == [started EXCEPT
                    !.polygons = [k \in 1..face_count |->
                                    [loop_start |-> started.polygons[k].loop_start,
                                     loop_total |-> 3]]]
    IN  IF ~ForeachSetAccepts(face_count, Len(LoopStarts(index_count)))
        THEN Outcome("RuntimeError", added, FALSE, FALSE)
        ELSE Outcome("none", [done EXCEPT !.updated = TRUE], TRUE, FALSE)

\* lines 252-265
UnpackLineWindows(mesh, index_array) ==
    LET edge_count == Len(index_array) - 1
    IN  IF edge_count > 0
        THEN Outcome("none", [mesh EXCEPT !.edges = WindowEdges(index_array),
                                          !.updated = TRUE], TRUE, FALSE)
        ELSE Outcome("none", [mesh EXCEPT !.updated = TRUE], TRUE, FALSE)

\* lines 267-280
UnpackEdges(mesh, index_array) ==
    LET index_count == Len(index_array)
        edge_count == index_count \div 2
    IN  IF edge_count > 0
        THEN Outcome("none",
                     [mesh EXCEPT !.edges = ChunkEdges(index_array, edge_count),
                                  !.updated = TRUE],
                     TRUE, index_count % 2 # 0)
        ELSE Outcome("none", [mesh EXCEPT !.updated = TRUE], TRUE, FALSE)

(***************************************************************************)
(* _unpackage_mesh_from_ffi, lines 214-295.  The outcome holds the         *)
(* exception that leaves the function ("none": it returned), the data      *)
(* block created at line 217 as the call left it (the block stays in       *)
(* bpy.data.meshes also when the call raises), whether the block was       *)
(* returned, and whether the odd-length warning of line 280 was printed.   *)
(***************************************************************************)
Unpackage(vertex_count, index_array, return_options) ==
    LET new_mesh == NewMesh(DictGet(return_options, "model_0_name", "new_mesh"))
        mesh_format == DictGet(return_options, MESH_FORMAT_TAG, "None")
        with_verts == [new_mesh EXCEPT !.nverts = vertex_count]
        branch == FormatBranch(mesh_format)
    IN  IF mesh_format = "None"
        THEN Outcome("HallrException", new_mesh, FALSE, FALSE)
        ELSE CASE branch = TRIANGULATED -> UnpackTriangulated(with_verts, index_array)
               [] branch = LINE_WINDOWS -> UnpackLineWindows(with_verts, index_array)
               [] branch = EDGES -> UnpackEdges(with_verts, index_array)
               [] branch = POINT_CLOUD ->
                    Outcome("none", [with_verts EXCEPT !.updated = TRUE], TRUE, FALSE)
               [] OTHER -> Outcome("HallrException", with_verts, FALSE, FALSE)

(***************************************************************************)
(* The host scene a call starts from: a triangle, a two-edge wire and a    *)
(* quad, each an object with a mesh data block, all in OBJECT mode.        *)
(***************************************************************************)
HostMesh(name, nverts, polygons, loops, edges) ==
    [NewMesh(name) EXCEPT !.nverts = nverts, !.polygons = polygons,
                          !.loops = loops, !.edges = edges, !.updated = TRUE]

InitialMeshes ==
    << HostMesh("Tri", 3, <<[loop_start |-> 0, loop_total |-> 3]>>, <<0, 1, 2>>,
                <<<<0, 1>>, <<1, 2>>, <<2, 0>>>>),
       HostMesh("Wire", 3, << >>, << >>, <<<<0, 1>>, <<1, 2>>>>),
       HostMesh("Quad", 4, <<[loop_start |-> 0, loop_total |-> 4]>>, <<0, 1, 2, 3>>,
                <<<<0, 1>>, <<1, 2>>, <<2, 3>>, <<3, 0>>>>) >>

HostObject(name, data) ==
    [name |-> name, data |-> data, linked |-> TRUE, mode |-> "OBJECT",
     matrix_world |-> "identity"]

\* "Tri.001" is a linked duplicate of "Tri": the two share one data block;
\* "Wire" has been moved, its world matrix is not the identity
InitialObjects ==
    << HostObject("Tri", 1),
       [HostObject("Wire", 2) EXCEPT !.matrix_world = "moved"],
       HostObject("Quad", 3),
       HostObject("Tri.001", 1) >>

\* the names of the objects linked into the scene
SceneNames(objs) == {objs[o].name : o \in {x \in DOMAIN objs : objs[x].linked}}

\* mesh.users: the objects whose data is the block
Users(objs, m) == Cardinality({o \in DOMAIN objs : objs[o].data = m})

(***************************************************************************)
(* _package_mesh_data, lines 142-211: the index buffer of a host mesh in   *)
(* the requested format, or the HallrException it raises.  The vertex      *)
(* buffer is kept as its number of floats.                                 *)
(***************************************************************************)
FlattenEdges(edges) ==
    [i \in 1..(2 * Len(edges)) |->
        edges[(i + 1) \div 2][IF i % 2 = 1 THEN 1 ELSE 2]]

\* lines 155-179: vertex_count * 3 floats, x, y, z of each vertex in vertex
\* order; in world space when the object's matrix is not the identity
PackageVertices(vertex_count, is_identity) ==
    [i \in 1..(3 * vertex_count) |->
        [vertex |-> (i - 1) \div 3, axis |-> (i - 1) % 3,
         space |-> IF is_identity THEN "local" ELSE "world"]]

\* line 184: all(len(face.vertices) == 3 for face in mesh.polygons)
AllTriangles_First(mesh) ==
    Len(mesh.polygons) = 0 \/ mesh.polygons[1].loop_total = 3
AllTriangles(mesh) ==
    \A k \in 1..Len(mesh.polygons) : mesh.polygons[k].loop_total = 3

\* line 197: len(mesh.polygons) > 0
HasPolygons_Never(mesh) == FALSE
HasPolygons(mesh) == Len(mesh.polygons) > 0

\* lines 192-193: np.empty(poly_count * 3); mesh.loops.foreach_get("vertex_index")
LoopIndices_Reversed(mesh) ==
    [i \in 1..Len(mesh.loops) |-> mesh.loops[Len(mesh.loops) + 1 - i]]
LoopIndices(mesh) == mesh.loops

PackageMeshData(mesh, mesh_format) ==
    LET vertices == Len(PackageVertices(mesh.nverts, TRUE))
        raised == [exc |-> "HallrException", vertices |-> 0, indices |-> << >>]
    IN  CASE mesh_format = TRIANGULATED ->
               IF ~AllTriangles(mesh)
               THEN raised
               ELSE IF Len(mesh.polygons) = 0
               THEN raised
               ELSE [exc |-> "none", vertices |-> vertices,
                     indices |-> LoopIndices(mesh)]
          [] mesh_format = EDGES ->
               IF HasPolygons(mesh)
               THEN raised
               ELSE [exc |-> "none", vertices |-> vertices,
                     indices |-> FlattenEdges(mesh.edges)]
          [] mesh_format = POINT_CLOUD ->
               [exc |-> "none", vertices |-> vertices, indices |-> << >>]
          [] OTHER -> raised

(***************************************************************************)
(* The input side of _process_mesh_with_rust, lines 518-591.               *)
(***************************************************************************)
\* str(n) of lines 548-549: the decimal digits of a count
Digits == <<"0", "1", "2", "3", "4", "5", "6", "7", "8", "9">>

RECURSIVE Str(_)
Str(n) ==
    IF n < 10 THEN <<Digits[n + 1]>>
    ELSE Str(n \div 10) \o <<Digits[(n % 10) + 1]>>

\* the vertex buffer _package_mesh_data returns for a host object
ObjectVertices(o, objs, mshs) ==
    LET flat == PackageVertices(mshs[objs[o].data].nverts,
                                objs[o].matrix_world = "identity")
    IN  [i \in 1..Len(flat) |->
            [object |-> o, vertex |-> flat[i].vertex, axis |-> flat[i].axis,
             space |-> flat[i].space]]

\* _get_matrices_col_major, lines 700-704: the 16 cells of matrix_world,
\* column by column
GetMatricesColMajor(o, objs) ==
    [i \in 1..16 |->
        [object |-> o, matrix |-> objs[o].matrix_world,
         row |-> (i - 1) % 4, col |-> (i - 1) \div 4]]

\* np.concatenate([a, b]), lines 555-557
Concatenate_Swapped(a, b) == b \o a
Concatenate(a, b) == a \o b

\* lines 559-560: if mesh_format != "": config[MESH_FORMAT_TAG] = mesh_format
SetMeshFormat_Always(config, mesh_format) ==
    [k \in DOMAIN config \cup {MESH_FORMAT_TAG} |->
        IF k = MESH_FORMAT_TAG THEN mesh_format ELSE config[k]]
SetMeshFormat(config, mesh_format) ==
    IF mesh_format # << >>
    THEN [k \in DOMAIN config \cup {MESH_FORMAT_TAG} |->
             IF k = MESH_FORMAT_TAG THEN mesh_format ELSE config[k]]
    ELSE config

\* the arguments of process_geometry, lines 588-591
NoArgs ==
    [vertices |-> << >>, vertex_count |-> 0, indices |-> << >>,
     indices_count |-> 0, matrices |-> << >>, matrices_len |-> 0,
     map |-> << >>, passed |-> FALSE]

\* the mappings a caller hands in: a fresh one, and one reused from an
\* earlier two-object call that still holds the keys that call wrote
CallerConfigs ==
    { (COMMAND_TAG :> "command") @@ ("custom" :> "1"),
      (COMMAND_TAG :> "command") @@ ("custom" :> "1") @@
      (MESH_FORMAT_TAG :> <<POINT_CLOUD, POINT_CLOUD>>) @@
      ("first_vertex_model_1" :> <<"9">>) @@ ("first_index_model_1" :> <<"9">>) }

(***************************************************************************)
(* The output map of a ProcessResult is a sequence of <<key, value>>       *)
(* entries (StringMap, lines 41-44).  Lines 595-601 decode it entry by     *)
(* entry: the first entry whose key is ERROR raises HallrException(value), *)
(* the entries before it have been stored, a later key overwrites.         *)
(***************************************************************************)
IsErrorKey_Never(key) == FALSE
IsErrorKey(key) == key = "ERROR"

RECURSIVE DecodeFrom(_, _, _)
DecodeFrom(map, i, options) ==
    IF i > Len(map)
    THEN [error |-> FALSE, value |-> "", options |-> options]
    ELSE IF IsErrorKey(map[i][1])
    THEN [error |-> TRUE, value |-> map[i][2], options |-> options]
    ELSE DecodeFrom(map, i + 1,
                    [k \in DOMAIN options \cup {map[i][1]} |->
                        IF k = map[i][1] THEN map[i][2] ELSE options[k]])

DecodeMap(map) == DecodeFrom(map, 1, << >>)

\* try/finally of lines 593-609: the release runs however the block is left
ReleaseRuns_OnSuccessOnly(exc) == exc = "none"
ReleaseRuns(exc) == TRUE

\* what lines 612-633 read once the result is released
PostReleaseReads_Result ==
    {"rust_lib", "return_options", "new_mesh", "rust_result", "new_object",
     "primary_object", "original_vertices", "original_indices"}
PostReleaseReads ==
    {"rust_lib", "return_options", "new_mesh", "indices_count", "new_object",
     "primary_object", "original_vertices", "original_indices"}

\* names bound to native memory: the result and the zero-copy views of
\* lines 225-233; everything else holds host copies (decoded strings of
\* lines 597-598, the mesh filled by foreach_set, the int of line 606)
NativeBacked == {"rust_result", "vertex_array", "index_array"}

\* float(value) of lines 328 and 369
ParsesAsFloat(value) == value \in {"0.001"}

\* lines 326-333 / 367-374 with _merge_vertices_bmesh (754-767): the module
\* never imports bmesh, so line 756 raises NameError, which "except
\* ValueError" does not catch
MergeOutcome(return_options) ==
    IF VERTEX_MERGE_TAG \notin DOMAIN return_options THEN "none"
    ELSE IF ~ParsesAsFloat(return_options[VERTEX_MERGE_TAG]) THEN "none"
    ELSE "NameError"

(***************************************************************************)
(* What the native engine may return: a geometry and an output map.        *)
(***************************************************************************)
NativeGeometries ==
    { [vertex_count |-> 0, indices |-> << >>],
      [vertex_count |-> 2, indices |-> <<0>>],
      [vertex_count |-> 3, indices |-> <<0, 1, 2>>],
      [vertex_count |-> 3, indices |-> <<0, 1, 2, 0>>] }

NativeMaps ==
    { << >>,
      << <<"ERROR", "non-manifold mesh">> >>,
      << <<"ERROR", "non-manifold mesh">>, <<MESH_FORMAT_TAG, TRIANGULATED>> >>,
      << <<MESH_FORMAT_TAG, EDGES>>, <<"ERROR", "non-manifold mesh">> >>,
      << <<MESH_FORMAT_TAG, TRIANGULATED>>, <<VERTEX_MERGE_TAG, "0.001">> >>,
      << <<MESH_FORMAT_TAG, TRIANGULATED>>, <<VERTEX_MERGE_TAG, "abc">> >> }
    \cup { << <<MESH_FORMAT_TAG, t>> >> : t \in OutputTags }

NativeResults ==
    { [vertex_count |-> g.vertex_count, indices |-> g.indices, map |-> m] :
        g \in NativeGeometries, m \in NativeMaps }

NoNative == [vertex_count |-> 0, indices |-> << >>, map |-> << >>]

(***************************************************************************)
(* The calls the operators make: process_config (no object, create),       *)
(* process_single_mesh (one object, update in place or create) and the     *)
(* two-object form (create).                                               *)
(***************************************************************************)
CallArgs ==
    { [create_new |-> TRUE, primary_object |-> None, secondary_object |-> None,
       primary_format |-> "None", secondary_format |-> "None"] }
    \cup
    { [create_new |-> c, primary_object |-> o, secondary_object |-> None,
       primary_format |-> f, secondary_format |-> "None"] :
        c \in BOOLEAN, o \in DOMAIN InitialObjects, f \in {TRIANGULATED, EDGES} }
    \cup
    { [create_new |-> TRUE, primary_object |-> 1, secondary_object |-> o,
       primary_format |-> TRIANGULATED, secondary_format |-> f] :
        o \in {2, 3}, f \in {EDGES, POINT_CLOUD} }
    \cup
    { [create_new |-> TRUE, primary_object |-> None, secondary_object |-> 2,
       primary_format |-> "None", secondary_format |-> EDGES] }

NoCall ==
    [create_new |-> FALSE, primary_object |-> None, secondary_object |-> None,
     primary_format |-> "None", secondary_format |-> "None",
     config |-> << >>, original_mode |-> "OBJECT", entry_active |-> None,
     new_object |-> None, vertices |-> 0, indices |-> << >>, matrices |-> 0,
     rust_lib |-> None, exc |-> "none", message |-> "",
     return_options |-> << >>, new_mesh |-> None, indices_count |-> 0,
     unpacked |-> FALSE, applied |-> FALSE, warned |-> FALSE,
     loader_calls |-> 0, undo_stack |-> << >>, welded |-> FALSE,
     vertex_buffer |-> << >>, matrix_buffer |-> << >>, native_args |-> NoArgs,
     trace |-> << >>, caller_config |-> << >>]

CallIdle ==
    /\ pc = "idle"
    /\ call = NoCall
    /\ rust_result = NoNative
    /\ resultState = "none"
    /\ frees = 0
    /\ danglingRead = FALSE

HostInit ==
    /\ objects = InitialObjects
    /\ meshes = InitialMeshes
    /\ active = None

LibIdle ==
    /\ DEV_MODE = FALSE
    /\ HALLR_LIBRARY = None
    /\ LATEST_LOADED_LIBRARY_FILE = None
    /\ directory = [f \in FileIds |-> Absent]
    /\ installed = "ok"
    /\ handles = << >>
    /\ loadResult = NoResult

UnpackIdle ==
    /\ unpackIn = [vertex_count |-> 0, index_array |-> << >>,
                   return_options |-> << >>]
    /\ unpackOut = NoOutcome

NoBuffers == [exc |-> "pending"]

PackIdle ==
    /\ packIn = [mesh |-> NewMesh("idle"), is_identity |-> TRUE,
                 mesh_format |-> TRIANGULATED]
    /\ packOut = NoBuffers

NoArrays == [state |-> "pending"]

CodecIdle ==
    /\ codecIn = << >>
    /\ codecOut = NoArrays

NoMesh == [nverts |-> 0, edges |-> << >>, faces |-> << >>, select |-> {}]

GraphIdle ==
    /\ bm = NoMesh
    /\ selected_before = {}
    /\ loop_result = "none"
    /\ work_queue = {}
    /\ already_selected = {}
    /\ gpc = "idle"

PureIdle == UnpackIdle /\ PackIdle /\ CodecIdle /\ GraphIdle

(***************************************************************************)
(* SpecLib: the lifecycle on its own.  A call of _load_latest_dylib is     *)
(* followed, when it returned a handle, by the use the only caller makes   *)
(* of it (lines 583-613: invoke, release, then "if DEV_MODE: close"), and  *)
(* the directory changes only between calls.                               *)
(***************************************************************************)
InitLib ==
    /\ DEV_MODE \in BOOLEAN
    /\ HALLR_LIBRARY = None
    /\ LATEST_LOADED_LIBRARY_FILE = None
    /\ directory \in [FileIds -> [mtime : 0..MaxMtime, kind : Kinds]]
    /\ \A f \in FileIds : directory[f] \in FileStates(f)
    /\ installed \in Kinds
    /\ handles = << >>
    /\ loadResult = NoResult
    /\ PureIdle
    /\ CallIdle
    /\ HostInit

\* a build, a copy, a touch or a removal in the target directory
FsChange ==
    /\ loadResult.status = "none"
    /\ \E f \in FileIds : \E st \in FileStates(f) :
          /\ st # directory[f]
          /\ directory' = [directory EXCEPT ![f] = st]
    /\ UNCHANGED <<DEV_MODE, HALLR_LIBRARY, LATEST_LOADED_LIBRARY_FILE,
                   installed, handles, loadResult>>
    /\ UNCHANGED otherThanLib

LibLoad ==
    /\ loadResult.status = "none"
    /\ LoadLatestDylib
    /\ UNCHANGED otherThanLib

\* the caller is done with the handle: line 612-613, then control returns
LibUseAndClose ==
    /\ loadResult.status = "ok"
    /\ CtypesCloseLibrary(loadResult.lib)
    /\ loadResult' = NoResult
    /\ UNCHANGED otherThanLib

\* the call raised: control returns to the host
LibRaised ==
    /\ loadResult.status \in {"ValueError", "OSError", "AttributeError"}
    /\ loadResult' = NoResult
    /\ UNCHANGED <<DEV_MODE, HALLR_LIBRARY, LATEST_LOADED_LIBRARY_FILE,
                   directory, installed, handles>>
    /\ UNCHANGED otherThanLib

NextLib == FsChange \/ LibLoad \/ LibUseAndClose \/ LibRaised

SpecLib == InitLib /\ [][NextLib]_vars

(***************************************************************************)
(* SpecUnpack: the unpacker applied to every output within the bounds.     *)
(* The output map carries a format tag (one of the four, or a tag the host *)
(* does not know) or none, and possibly a name for the new mesh.           *)
(***************************************************************************)
IndexBuffers ==
    UNION {[1..n -> 0..(MaxVerts - 1)] : n \in 0..MaxIndices}

OutputMaps ==
    {<< >>} \cup {(MESH_FORMAT_TAG :> t) : t \in OutputTags}

InitUnpack ==
    /\ LibIdle
    /\ CallIdle
    /\ GraphIdle
    /\ HostInit
    /\ unpackIn \in [vertex_count : 0..MaxVerts, index_array : IndexBuffers,
                     return_options : OutputMaps]
    /\ unpackOut = NoOutcome
    /\ PackIdle
    /\ CodecIdle

UnpackCall ==
    /\ unpackOut = NoOutcome
    /\ unpackOut' = Unpackage(unpackIn.vertex_count, unpackIn.index_array,
                              unpackIn.return_options)
    /\ UNCHANGED unpackIn
    /\ UNCHANGED otherThanUnpack

NextUnpack == UnpackCall

SpecUnpack == InitUnpack /\ [][NextUnpack]_vars

(***************************************************************************)
(* SpecPackage: the extractor applied to every host mesh within the        *)
(* bounds, in each of the four formats, with and without a world           *)
(* transform.  A host mesh keeps the loops of its faces contiguous and in  *)
(* face order; a face has three or four distinct corners; a mesh has       *)
(* faces (its edges are then the sides of the faces) or loose edges only.  *)
(***************************************************************************)
Increasing(t) == \A i \in 1..(Len(t) - 1) : t[i] < t[i + 1]
Decreasing(t) == \A i \in 1..(Len(t) - 1) : t[i] > t[i + 1]

FaceShapes(n) ==
    {t \in [1..3 -> 0..(n - 1)] : Increasing(t) \/ Decreasing(t)} \cup
    {t \in [1..4 -> 0..(n - 1)] : Increasing(t)}

EdgeShapes(n) == {e \in [1..2 -> 0..(n - 1)] : e[1] < e[2]}

SeqsUpTo(S, k) == UNION {[1..m -> S] : m \in 0..k}

RECURSIVE FlattenFaces(_)
FlattenFaces(faces) ==
    IF faces = << >> THEN << >>
    ELSE Head(faces) \o FlattenFaces(Tail(faces))

FaceSides(face) ==
    [i \in 1..Len(face) |-> <<face[i], face[(i % Len(face)) + 1]>>]

RECURSIVE FaceEdges(_)
FaceEdges(faces) ==
    IF faces = << >> THEN << >>
    ELSE FaceSides(Head(faces)) \o FaceEdges(Tail(faces))

MeshOf(n, faces, edges) ==
    HostMesh("mesh", n,
             [k \in 1..Len(faces) |->
                [loop_start |-> Len(FlattenFaces(SubSeq(faces, 1, k - 1))),
                 loop_total |-> Len(faces[k])]],
             FlattenFaces(faces), edges)

\* the meshes of n vertices
PackMeshes(n) ==
    {MeshOf(n, f, FaceEdges(f)) : f \in SeqsUpTo(FaceShapes(n), MaxPolys)}
    \cup {MeshOf(n, << >>, e) : e \in SeqsUpTo(EdgeShapes(n), MaxEdges)}

InitPackage ==
    /\ LibIdle
    /\ CallIdle
    /\ GraphIdle
    /\ HostInit
    /\ UnpackIdle
    /\ CodecIdle
    /\ \E n \in 0..MaxVerts :
          packIn \in [mesh : PackMeshes(n), is_identity : BOOLEAN,
                      mesh_format : MeshFormats]
    /\ packOut = NoBuffers

\* one call of _package_mesh_data: the pair it returns, or what it raises
PackCall ==
    /\ packOut = NoBuffers
    /\ LET r == PackageMeshData(packIn.mesh, packIn.mesh_format)
       IN  packOut' =
             [exc |-> r.exc,
              returned |-> r.exc = "none",
              vertices |-> IF r.exc = "none"
                           THEN PackageVertices(packIn.mesh.nverts,
                                                packIn.is_identity)
                           ELSE << >>,
              indices |-> r.indices]
    /\ UNCHANGED packIn
    /\ UNCHANGED <<libVars, unpackVars, codecVars, graphVars, callVars, hostVars>>

NextPackage == PackCall

SpecPackage == InitPackage /\ [][NextPackage]_vars

(***************************************************************************)
(* SpecCodec: a config mapping encoded into the StringMap arrays           *)
(* (lines 571-576) and those arrays read back by the result decoder        *)
(* (lines 595-601).  A string is a sequence of code points: NUL, "a" and   *)
(* "e acute"; a c_char_p holds the UTF-8 bytes followed by a NUL byte,     *)
(* and ctypes.string_at reads up to the first NUL byte.                    *)
(***************************************************************************)
CodePoints == {0, 97, 233}
Strings == SeqsUpTo(CodePoints, MaxStrLen)

\* the reserved key "ERROR" as code points (line 599)
ERROR_KEY == <<69, 82, 82, 79, 82>>

\* str.encode('utf-8'), lines 574-575, for code points below U+0800
Utf8Bytes(cp) ==
    IF cp < 128 THEN <<cp>> ELSE <<192 + (cp \div 64), 128 + (cp % 64)>>

RECURSIVE Utf8Encode(_)
Utf8Encode(str) ==
    IF str = << >> THEN << >>
    ELSE Utf8Bytes(Head(str)) \o Utf8Encode(Tail(str))

\* bytes.decode('utf-8'), lines 597-598
RECURSIVE Utf8Decode(_)
Utf8Decode(bytes) ==
    IF bytes = << >> THEN << >>
    ELSE IF Head(bytes) < 128
    THEN <<Head(bytes)>> \o Utf8Decode(Tail(bytes))
    ELSE <<(Head(bytes) - 192) * 64 + (bytes[2] - 128)>>
         \o Utf8Decode(Tail(Tail(bytes)))

\* ctypes.c_char_p(bytes): the memory an element of the array points to
CCharP(bytes) == bytes \o <<0>>

\* ctypes.string_at(ptr): the bytes before the first NUL byte
StringAt(buffer) ==
    LET nul == CHOOSE i \in 1..Len(buffer) :
                  buffer[i] = 0 /\ \A j \in 1..(i - 1) : buffer[j] # 0
    IN  SubSeq(buffer, 1, nul - 1)

\* lines 572-576: StringMap(keys_array, values_array, len(keys_list))
EncodeMap(config) ==
    [keys |-> [i \in 1..Len(config) |-> CCharP(Utf8Encode(config[i][1]))],
     values |-> [i \in 1..Len(config) |-> CCharP(Utf8Encode(config[i][2]))],
     count |-> Len(config)]

\* lines 595-601 on a StringMap
RECURSIVE DecodeArrays(_, _, _)
DecodeArrays(map, i, options) ==
    IF i > map.count
    THEN [error |-> FALSE, value |-> << >>, options |-> options]
    ELSE LET key == Utf8Decode(StringAt(map.keys[i]))
             value == Utf8Decode(StringAt(map.values[i]))
         IN  IF key = ERROR_KEY
             THEN [error |-> TRUE, value |-> value, options |-> options]
             ELSE DecodeArrays(map, i + 1,
                               [k \in DOMAIN options \cup {key} |->
                                   IF k = key THEN value ELSE options[k]])

\* a dict of one or two entries, in insertion order
ConfigMaps ==
    {<<e>> : e \in (Strings \cup {ERROR_KEY}) \X Strings} \cup
    {<<e, f>> : e \in (Strings \cup {ERROR_KEY}) \X Strings, f \in Strings \X Strings}

InitCodec ==
    /\ LibIdle
    /\ CallIdle
    /\ GraphIdle
    /\ HostInit
    /\ UnpackIdle
    /\ PackIdle
    /\ codecIn \in ConfigMaps
    /\ \A i, j \in 1..Len(codecIn) : i # j => codecIn[i][1] # codecIn[j][1]
    /\ codecOut = NoArrays

CodecCall ==
    /\ codecOut = NoArrays
    /\ LET map == EncodeMap(codecIn)
           d == DecodeArrays(map, 1, << >>)
       IN  codecOut' = [state |-> "done", map |-> map, error |-> d.error,
                        value |-> d.value, options |-> d.options]
    /\ UNCHANGED codecIn
    /\ UNCHANGED <<libVars, unpackVars, packVars, graphVars, callVars, hostVars>>

NextCodec == CodecCall

SpecCodec == InitCodec /\ [][NextCodec]_vars

(***************************************************************************)
(* The graph routines.  A mesh is [nverts, edges, faces, select]: vertices *)
(* 0..nverts-1, edges a sequence of vertex pairs, faces a sequence of      *)
(* vertex triples whose sides are edges of the mesh, select the set of     *)
(* vertices whose select flag is set.                                      *)
(***************************************************************************)
Pairs(n) == {<<a, b>> : a \in 0..(n - 1), b \in 0..(n - 1)} \ 
            {<<a, b>> \in (0..(n - 1)) \X (0..(n - 1)) : a >= b}

Triples(n) ==
    {t \in (0..(n - 1)) \X (0..(n - 1)) \X (0..(n - 1)) : t[1] < t[2] /\ t[2] < t[3]}

\* the edges and faces of a mesh in the order the host stores them
LexLess(x, y) ==
    \E i \in DOMAIN x : x[i] < y[i] /\ \A j \in 1..(i - 1) : x[j] = y[j]

RECURSIVE Stored(_)
Stored(S) ==
    IF S = {} THEN << >>
    ELSE LET first == CHOOSE x \in S : \A y \in S \ {x} : LexLess(x, y)
         IN  <<first>> \o Stored(S \ {first})

EdgeSets(n, k) == {E \in SUBSET Pairs(n) : Cardinality(E) <= k}

FaceSets(n, E) ==
    SUBSET {t \in Triples(n) :
               {<<t[1], t[2]>>, <<t[2], t[3]>>, <<t[1], t[3]>>} \subseteq E}

LoopMeshes(n, k) ==
    {[nverts |-> n, edges |-> Stored(E), faces |-> << >>, select |-> {}] :
        E \in EdgeSets(n, k)}

WireMeshes(n, k) ==
    {[nverts |-> n, edges |-> Stored(E), faces |-> << >>, select |-> sel] :
        E \in EdgeSets(n, k), sel \in SUBSET (0..(n - 1))}

FaceMeshes(n, k) ==
    UNION {{[nverts |-> n, edges |-> Stored(E), faces |-> Stored(F), select |-> sel] :
               F \in FaceSets(n, E), sel \in SUBSET (0..(n - 1))} :
           E \in EdgeSets(n, k)}

\* the graph variables other than those an action writes
GraphFrame == UNCHANGED <<libVars, unpackVars, packVars, codecVars, callVars, hostVars>>

(***************************************************************************)
(* SpecLoop: is_loop (hallr_ffi_utils.py, lines 707-726) applied to every  *)
(* bounded mesh without faces, as its callers do.                          *)
(***************************************************************************)
\* line 716: edge_count_per_vertex[vertex] = edge_count_per_vertex.get(vertex, 0) + 1
Increment(counts, vertex) ==
    [u \in DOMAIN counts \cup {vertex} |->
        IF u = vertex
        THEN (IF vertex \in DOMAIN counts THEN counts[vertex] ELSE 0) + 1
        ELSE counts[u]]

\* lines 714-719: the loop over the edges and their two vertices; "over" when
\* it returned False at line 719
RECURSIVE CountEdges(_, _, _)
CountEdges(edges, i, counts) ==
    IF i > Len(edges) THEN [over |-> FALSE, counts |-> counts]
    ELSE LET first == Increment(counts, edges[i][1])
             second == Increment(first, edges[i][2])
         IN  IF first[edges[i][1]] > 2 THEN [over |-> TRUE, counts |-> first]
             ELSE IF second[edges[i][2]] > 2 THEN [over |-> TRUE, counts |-> second]
             ELSE CountEdges(edges, i + 1, second)

IsLoop(mesh) ==
    LET r == CountEdges(mesh.edges, 1, << >>)
    IN  IF r.over THEN FALSE
        ELSE IF \E v \in DOMAIN r.counts : r.counts[v] = 1 THEN FALSE
        ELSE Cardinality(DOMAIN r.counts) = Len(mesh.edges)

InitLoop ==
    /\ LibIdle
    /\ CallIdle
    /\ HostInit
    /\ UnpackIdle
    /\ PackIdle
    /\ CodecIdle
    /\ bm \in LoopMeshes(MaxLoopVerts, MaxLoopEdges)
    /\ selected_before = {}
    /\ loop_result = "none"
    /\ work_queue = {}
    /\ already_selected = {}
    /\ gpc = "start"

IsLoopCall ==
    /\ gpc = "start"
    /\ loop_result' = IF IsLoop(bm) THEN "True" ELSE "False"
    /\ gpc' = "done"
    /\ UNCHANGED <<bm, selected_before, work_queue, already_selected>>
    /\ GraphFrame

NextLoop == IsLoopCall

SpecLoop == InitLoop /\ [][NextLoop]_vars

(***************************************************************************)
(* SpecSelect: MESH_OT_hallr_select_intersection_vertices.execute          *)
(* (pure_python.py, lines 365-391) applied to every bounded mesh.          *)
(***************************************************************************)
\* lines 377-383: one increment per edge and one per face a vertex is part of
VertexConnections(mesh) ==
    [vi \in 0..(mesh.nverts - 1) |->
        Cardinality({i \in DOMAIN mesh.edges :
                        \E k \in DOMAIN mesh.edges[i] : mesh.edges[i][k] = vi})
        + Cardinality({i \in DOMAIN mesh.faces :
                        \E k \in DOMAIN mesh.faces[i] : mesh.faces[i][k] = vi})]

InitSelect ==
    /\ LibIdle
    /\ CallIdle
    /\ HostInit
    /\ UnpackIdle
    /\ PackIdle
    /\ CodecIdle
    /\ bm \in FaceMeshes(MaxBmVerts, MaxBmEdges)
    /\ selected_before = bm.select
    /\ loop_result = "none"
    /\ work_queue = {}
    /\ already_selected = {}
    /\ gpc = "start"

SelectIntersectionVertices ==
    /\ gpc = "start"
    /\ bm' = [bm EXCEPT !.select =
                 IF Len(bm.edges) > 0 \/ Len(bm.faces) > 0
                 THEN {vi \in 0..(bm.nverts - 1) : VertexConnections(bm)[vi] > 2}
                 ELSE {}]
    /\ gpc' = "done"
    /\ UNCHANGED <<selected_before, loop_result, work_queue, already_selected>>
    /\ GraphFrame

NextSelect == SelectIntersectionVertices

SpecSelect == InitSelect /\ [][NextSelect]_vars

(***************************************************************************)
(* SpecWalk: MESH_OT_hallr_select_vertices_until_intersection.execute      *)
(* (pure_python.py, lines 404-443) on every bounded wire-frame mesh, one   *)
(* step per iteration of its while loop.  set.pop() takes any element.     *)
(***************************************************************************)
\* bm.verts[v].link_edges
LinkEdges(mesh, v) ==
    {i \in DOMAIN mesh.edges : mesh.edges[i][1] = v \/ mesh.edges[i][2] = v}

\* line 430: if len(bm.verts[v].link_edges) <= 2
Expandable_Always(link_edges) == TRUE
Expandable(link_edges) == Cardinality(link_edges) <= 2

\* lines 432-436: the other end of each edge, unless it was visited
Added(mesh, v, visited) ==
    {mesh.edges[i][k] : i \in LinkEdges(mesh, v), k \in 1..2} \ ({v} \cup visited)

InitWalk ==
    /\ LibIdle
    /\ CallIdle
    /\ HostInit
    /\ UnpackIdle
    /\ PackIdle
    /\ CodecIdle
    /\ bm \in WireMeshes(MaxBmVerts, MaxBmEdges)
    /\ selected_before = bm.select
    /\ loop_result = "none"
    /\ work_queue = {}
    /\ already_selected = {}
    /\ gpc = "start"

\* lines 416-424: the guard and the seeding of the work queue
WalkStart ==
    /\ gpc = "start"
    /\ IF Len(bm.edges) > 0 /\ Len(bm.faces) = 0
       THEN /\ work_queue' = bm.select
            /\ gpc' = "walk"
       ELSE /\ work_queue' = {}
            /\ gpc' = "done"
    /\ UNCHANGED <<bm, selected_before, loop_result, already_selected>>
    /\ GraphFrame

\* lines 425-439: one iteration of the while loop
WalkStep ==
    /\ gpc = "walk"
    /\ work_queue # {}
    /\ \E v \in work_queue :
          IF v \in already_selected
          THEN /\ work_queue' = work_queue \ {v}
               /\ UNCHANGED <<bm, already_selected>>
          ELSE /\ IF Expandable(LinkEdges(bm, v))
                  THEN /\ bm' = [bm EXCEPT !.select = bm.select \cup {v}]
                       /\ work_queue' = (work_queue \ {v}) \cup
                                            Added(bm, v, already_selected)
                  ELSE /\ work_queue' = work_queue \ {v}
                       /\ UNCHANGED bm
               /\ already_selected' = already_selected \cup {v}
    /\ UNCHANGED <<selected_before, loop_result, gpc>>
    /\ GraphFrame

\* lines 425 and 441-443: the loop ends, the edit mesh is updated
WalkEnd ==
    /\ gpc = "walk"
    /\ work_queue = {}
    /\ gpc' = "done"
    /\ UNCHANGED <<bm, selected_before, loop_result, work_queue, already_selected>>
    /\ GraphFrame

NextWalk ==
    \/ WalkStart
    \/ WalkStep
    \/ WalkEnd

SpecWalk == InitWalk /\ [][NextWalk]_vars

\* execute runs to its return: nothing else is scheduled while it runs
SpecWalkFair == SpecWalk /\ WF_vars(NextWalk)

(***************************************************************************)
(* Spec: calls of process_mesh_with_rust, one step per stretch of code.    *)
(* An exception is held in call.exc while the finally blocks run; the      *)
(* call ends at pc = "done" with call.exc telling what reached the caller. *)
(* Between calls the host reloads its file (the scene starts over) while   *)
(* the add-on's module globals live on.                                    *)
(***************************************************************************)
PipelineDirectories ==
    {[f \in FileIds |-> IF f = 1 THEN st ELSE Absent] :
        st \in {Absent} \cup {[mtime |-> 1, kind |-> k] : k \in Kinds}}

Init ==
    /\ DEV_MODE \in BOOLEAN
    /\ HALLR_LIBRARY = None
    /\ LATEST_LOADED_LIBRARY_FILE = None
    /\ directory \in PipelineDirectories
    /\ installed \in Kinds
    /\ DEV_MODE => installed = "ok"
    /\ ~DEV_MODE => directory = [f \in FileIds |-> Absent]
    /\ handles = << >>
    /\ loadResult = NoResult
    /\ PureIdle
    /\ CallIdle
    /\ HostInit

\* lines 430-461: entry; the user may have an object active, in any mode
Call ==
    /\ pc = "idle"
    /\ NextHandle <= MaxLoads
    /\ \E args \in CallArgs, a \in {None, 1}, m \in {"OBJECT", "EDIT"},
          config \in CallerConfigs :
          /\ a = None => m = "OBJECT"
          /\ call' = [NoCall EXCEPT
                        !.create_new = args.create_new,
                        !.primary_object = args.primary_object,
                        !.secondary_object = args.secondary_object,
                        !.primary_format = args.primary_format,
                        !.secondary_format = args.secondary_format,
                        !.config = config,
                        !.caller_config = config,
                        !.trace = IF a # None /\ m # "OBJECT"
                                  THEN <<"mode_set OBJECT">> ELSE << >>,
                        !.entry_active = a,
                        !.original_mode = m]
          /\ active' = a
          \* lines 460-461: bpy.ops.object.mode_set(mode='OBJECT')
          /\ objects' = IF a # None
                        THEN [objects EXCEPT ![a].mode = "OBJECT"]
                        ELSE objects
    /\ pc' = "try"
    /\ UNCHANGED <<meshes, rust_result, resultState, frees, danglingRead>>
    /\ UNCHANGED <<libVars, pureVars>>

\* lines 504-516: create mode makes "New_Object" with an empty mesh, links
\* it, pushes the undo step, selects it and makes it active
CreateNewObject ==
    /\ pc = "try"
    /\ IF call.create_new
       THEN /\ meshes' = Append(meshes, NewMesh("empty mesh"))
            /\ objects' = Append(objects, HostObject("New_Object", Len(meshes) + 1))
            /\ active' = Len(objects) + 1
            \* line 513: the undo step records the scene as it is at the push
            /\ call' = [call EXCEPT
                          !.new_object = Len(objects) + 1,
                          !.trace = Append(call.trace, "mutate"),
                          !.undo_stack = Append(call.undo_stack,
                              [message |-> "Create New Object",
                               scene |-> SceneNames(objects')])]
       ELSE UNCHANGED <<meshes, objects, active, call>>
    /\ pc' = "marshal"
    /\ UNCHANGED <<rust_result, resultState, frees, danglingRead>>
    /\ UNCHANGED <<libVars, pureVars>>

\* lines 536 and 551: a raise of _package_mesh_data leaves _process_mesh_with_rust
PackageRaised_Ignored(p, q) == FALSE
PackageRaised(p, q) == p.exc # "none" \/ q.exc # "none"

\* lines 518-579: extract the buffers of the objects and complete the config
MarshalInput ==
    /\ pc = "marshal"
    /\ LET hasP == call.primary_object # None
           hasS == call.secondary_object # None
           nothing == [exc |-> "none", vertices |-> 0, indices |-> << >>]
           p == IF hasP
                THEN PackageMeshData(meshes[objects[call.primary_object].data],
                                     call.primary_format)
                ELSE nothing
           pv == IF hasP /\ p.exc = "none"
                 THEN ObjectVertices(call.primary_object, objects, meshes)
                 ELSE << >>
           pm == IF hasP /\ p.exc = "none"
                 THEN GetMatricesColMajor(call.primary_object, objects)
                 ELSE << >>
           cfgS == IF hasS /\ p.exc = "none"
                   THEN [k \in DOMAIN call.config \cup
                               {"first_vertex_model_1", "first_index_model_1"} |->
                           CASE k = "first_vertex_model_1" -> Str(Len(pv) \div 3)
                             [] k = "first_index_model_1" -> Str(Len(p.indices))
                             [] OTHER -> call.config[k]]
                   ELSE call.config
           q == IF hasS /\ p.exc = "none"
                THEN PackageMeshData(meshes[objects[call.secondary_object].data],
                                     call.secondary_format)
                ELSE nothing
           qv == IF hasS /\ p.exc = "none" /\ q.exc = "none"
                 THEN ObjectVertices(call.secondary_object, objects, meshes)
                 ELSE << >>
           qm == IF hasS /\ p.exc = "none" /\ q.exc = "none"
                 THEN GetMatricesColMajor(call.secondary_object, objects)
                 ELSE << >>
           mesh_format == (IF hasP THEN <<call.primary_format>> ELSE << >>) \o
                          (IF hasS THEN <<call.secondary_format>> ELSE << >>)
       IN  IF PackageRaised(p, q)
           THEN /\ call' = [call EXCEPT !.exc = "HallrException",
                                        !.message = "package",
                                        !.config = cfgS]
                /\ pc' = "finally"
           ELSE /\ call' = [call EXCEPT
                              !.vertices = p.vertices + q.vertices,
                              !.indices = Concatenate(p.indices, q.indices),
                              !.matrices = Len(pm) + Len(qm),
                              !.vertex_buffer = Concatenate(pv, qv),
                              !.matrix_buffer = Concatenate(pm, qm),
                              !.config = SetMeshFormat(cfgS, mesh_format)]
                /\ pc' = "load"
    /\ UNCHANGED <<rust_result, resultState, frees, danglingRead, hostVars>>
    /\ UNCHANGED <<libVars, pureVars>>

\* line 583: rust_lib = _load_latest_dylib()
FetchLibrary ==
    /\ pc = "load"
    /\ LoadLatestDylib
    /\ call' = [call EXCEPT
                  !.loader_calls = call.loader_calls + 1,
                  !.rust_lib = loadResult'.lib,
                  !.exc = IF loadResult'.status = "ok" THEN "none"
                          ELSE loadResult'.status]
    /\ pc' = IF loadResult'.status = "ok" THEN "invoke" ELSE "finally"
    /\ UNCHANGED <<rust_result, resultState, frees, danglingRead, hostVars>>
    /\ UNCHANGED pureVars

\* lines 588-591: process_geometry returns a result the native side owns
Invoke ==
    /\ pc = "invoke"
    /\ rust_result' \in NativeResults
    /\ resultState' = "live"
    /\ frees' = 0
    /\ call' = [call EXCEPT !.native_args =
                    [vertices |-> call.vertex_buffer,
                     vertex_count |-> Len(call.vertex_buffer) \div 3,
                     indices |-> call.indices,
                     indices_count |-> Len(call.indices),
                     matrices |-> call.matrix_buffer,
                     matrices_len |-> Len(call.matrix_buffer),
                     map |-> call.config,
                     passed |-> TRUE]]
    /\ pc' = "decode"
    /\ UNCHANGED <<danglingRead, hostVars>>
    /\ UNCHANGED <<libVars, pureVars>>

\* lines 595-601: copy the output map into return_options, or raise on ERROR
ExtractOptions ==
    /\ pc = "decode"
    /\ LET d == DecodeMap(rust_result.map)
       IN  IF d.error
           THEN /\ call' = [call EXCEPT !.exc = "HallrException",
                                        !.message = d.value]
                /\ pc' = "release"
           ELSE /\ call' = [call EXCEPT !.return_options = d.options]
                /\ pc' = "unpack"
    /\ danglingRead' = (danglingRead \/ resultState # "live")
    /\ UNCHANGED <<rust_result, resultState, frees, hostVars>>
    /\ UNCHANGED <<libVars, pureVars>>

\* lines 603-606: build the new mesh from the result's buffers
Unpack ==
    /\ pc = "unpack"
    /\ LET out == Unpackage(rust_result.vertex_count, rust_result.indices,
                            call.return_options)
       IN  /\ meshes' = Append(meshes, out.mesh)
           /\ call' = IF out.exc = "none"
                      THEN [call EXCEPT !.unpacked = TRUE,
                                        !.trace = Append(call.trace, "mutate"),
                                        !.new_mesh = Len(meshes) + 1,
                                        !.indices_count = Len(rust_result.indices),
                                        !.warned = out.warned]
                      ELSE [call EXCEPT !.unpacked = TRUE, !.exc = out.exc,
                                        !.trace = Append(call.trace, "mutate"),
                                        !.message = "unpack"]
    /\ danglingRead' = (danglingRead \/ resultState # "live")
    /\ pc' = "release"
    /\ UNCHANGED <<rust_result, resultState, frees, objects, active>>
    /\ UNCHANGED <<libVars, pureVars>>

\* lines 607-609: finally: rust_lib.free_process_results(rust_result)
Release ==
    /\ pc = "release"
    /\ IF ReleaseRuns(call.exc)
       THEN /\ resultState' = "freed"
            /\ frees' = frees + 1
       ELSE UNCHANGED <<resultState, frees>>
    /\ pc' = IF call.exc = "none" THEN "close" ELSE "finally"
    /\ UNCHANGED <<call, rust_result, danglingRead, hostVars>>
    /\ UNCHANGED <<libVars, pureVars>>

\* lines 612-613: if DEV_MODE: _ctypes_close_library(rust_lib)
CloseLibrary ==
    /\ pc = "close"
    /\ CtypesCloseLibrary(call.rust_lib)
    /\ pc' = "apply"
    /\ UNCHANGED loadResult
    /\ UNCHANGED <<call, rust_result, resultState, frees, danglingRead, hostVars>>
    /\ UNCHANGED pureVars

\* line 363: old_mesh.users == 0 and not old_mesh.use_fake_user
RemoveOldMesh_Always(users, use_fake_user) == TRUE
RemoveOldMesh(users, use_fake_user) == users = 0 /\ ~use_fake_user

\* lines 615-633 with _handle_new_object (298-333) and
\* _update_existing_object (336-374)
Apply ==
    /\ pc = "apply"
    /\ LET target == IF call.create_new THEN call.new_object
                     ELSE call.primary_object
           old_mesh == objects[target].data
           swapped == [objects EXCEPT ![target].data = call.new_mesh]
       IN  /\ objects' = swapped
           /\ active' = target
           /\ meshes' = IF /\ ~call.create_new
                           /\ RemoveOldMesh(Users(swapped, old_mesh),
                                            meshes[old_mesh].use_fake_user)
                        THEN [meshes EXCEPT ![old_mesh].removed = TRUE]
                        ELSE meshes
           /\ call' = [call EXCEPT
                         !.applied = TRUE,
                         !.trace = Append(call.trace, "mutate"),
                         !.welded = (MergeOutcome(call.return_options) = "merged"),
                         !.exc = IF MergeOutcome(call.return_options) = "merged"
                                 THEN "none"
                                 ELSE MergeOutcome(call.return_options)]
    /\ danglingRead' = (danglingRead \/
                        (resultState = "freed" /\
                         PostReleaseReads \cap NativeBacked # {}))
    /\ pc' = "finally"
    /\ UNCHANGED <<rust_result, resultState, frees>>
    /\ UNCHANGED <<libVars, pureVars>>

\* lines 468-474: the host calls of the finally block, in order
FinallySteps_RestoreFirst(restore) ==
    (IF restore THEN <<"mode_set restore">> ELSE << >>) \o <<"view_layer.update">>
FinallySteps(restore) ==
    <<"view_layer.update">> \o (IF restore THEN <<"mode_set restore">> ELSE << >>)

\* line 473: if original_mode != 'OBJECT'
RestoreMode_Never(original_mode) == FALSE
RestoreMode(original_mode) == original_mode # "OBJECT"

\* lines 468-474: finally: view_layer.update(), restore the original mode;
\* then the result or the exception reaches the caller
Finally ==
    /\ pc = "finally"
    /\ objects' = IF RestoreMode(call.original_mode) /\ active # None
                  THEN [objects EXCEPT ![active].mode = call.original_mode]
                  ELSE objects
    /\ call' = [call EXCEPT !.trace =
                    call.trace \o FinallySteps(RestoreMode(call.original_mode))]
    /\ loadResult' = NoResult
    /\ pc' = "done"
    /\ UNCHANGED <<rust_result, resultState, frees, danglingRead,
                   meshes, active>>
    /\ UNCHANGED <<DEV_MODE, HALLR_LIBRARY, LATEST_LOADED_LIBRARY_FILE,
                   directory, installed, handles>>
    /\ UNCHANGED pureVars

\* between calls the user sets or clears the fake-user flag of a data block
UserEdit ==
    /\ pc = "idle"
    /\ \E m \in DOMAIN meshes :
          meshes' = [meshes EXCEPT ![m].use_fake_user = ~meshes[m].use_fake_user]
    /\ UNCHANGED <<callVars, objects, active>>
    /\ UNCHANGED <<libVars, pureVars>>

\* the host reloads its file: the scene starts over, the module globals stay
Revert ==
    /\ pc = "done"
    /\ pc' = "idle"
    /\ call' = NoCall
    /\ rust_result' = NoNative
    /\ resultState' = "none"
    /\ frees' = 0
    /\ danglingRead' = FALSE
    /\ objects' = InitialObjects
    /\ meshes' = InitialMeshes
    /\ active' = None
    /\ UNCHANGED <<libVars, pureVars>>

Next ==
    \/ Call
    \/ CreateNewObject
    \/ MarshalInput
    \/ FetchLibrary
    \/ Invoke
    \/ ExtractOptions
    \/ Unpack
    \/ Release
    \/ CloseLibrary
    \/ Apply
    \/ Finally
    \/ UserEdit
    \/ Revert

Spec == Init /\ [][Next]_vars

(***************************************************************************)
(* C5: in production mode the library is loaded at most once.  Once a call *)
(* has stored a handle in HALLR_LIBRARY, no step replaces or resets it, no *)
(* step creates another CDLL object (no further LoadLibrary) and no step   *)
(* closes a handle; every call that returns, returns the stored handle.    *)
(* Calls that raise (OSError, AttributeError) store nothing and may be     *)
(* retried: they come before the first successful call.                    *)
(***************************************************************************)
C5_ProductionLoadsOnce ==
    [][ ~DEV_MODE =>
          /\ HALLR_LIBRARY # None =>
                (HALLR_LIBRARY' = HALLR_LIBRARY /\ handles' = handles)
          /\ loadResult'.status = "ok" =>
                /\ loadResult'.lib = HALLR_LIBRARY'
                /\ ~handles'[loadResult'.lib].closed
          /\ \A h \in DOMAIN handles' : ~handles'[h].closed ]_vars

\* a later call in production mode returned the cached handle without loading
C5_Witness ==
    /\ ~DEV_MODE
    /\ loadResult.status = "ok"
    /\ ~loadResult.loaded
    /\ loadResult.lib = HALLR_LIBRARY

(***************************************************************************)
(* C6: in development mode every call that returns a handle returns one    *)
(* for a prefixed file of maximal modification time in the directory as    *)
(* listed by that call; it loads nothing when that file is the one         *)
(* recorded as loaded, and it raises when no file matches.                 *)
(***************************************************************************)
C6_DevReturnsNewest ==
    (DEV_MODE /\ loadResult.status # "none") =>
        /\ ListFiles(directory) = {} <=> loadResult.status = "ValueError"
        /\ loadResult.status = "ok" =>
              /\ StartsWithPrefix(handles[loadResult.lib].file)
              /\ handles[loadResult.lib].file
                    \in LatestFiles(ListFiles(directory), directory)

(***************************************************************************)
(* Helpers of the statements below, written from the claims' words.        *)
(***************************************************************************)
HasErrorEntry(map) == \E i \in 1..Len(map) : map[i][1] = "ERROR"

FirstErrorValue(map) ==
    LET i == CHOOSE j \in 1..Len(map) :
                 /\ map[j][1] = "ERROR"
                 /\ \A k \in 1..(j - 1) : map[k][1] # "ERROR"
    IN  map[i][2]

\* the inner function has been left (by return or by an exception)
LeftInner == pc \in {"finally", "done"}

UnpackDone == unpackOut.exc # "pending"
UnpackTag == DictGet(unpackIn.return_options, MESH_FORMAT_TAG, "None")
UnpackN == Len(unpackIn.index_array)

(***************************************************************************)
(* C1: whenever process_geometry returned a result, free_process_results   *)
(* has been called on it exactly once by the time _process_mesh_with_rust  *)
(* returns or raises (success, ERROR key, unpack failure), and it is at no *)
(* time called twice.                                                      *)
(***************************************************************************)
C1_ReleaseExactlyOnce ==
    /\ frees <= 1
    /\ resultState = "none" => frees = 0
    /\ (resultState # "none" /\ (LeftInner \/ pc \in {"close", "apply"})) =>
          (frees = 1 /\ resultState = "freed")

\* the unpacker raised on a live result, and the call ended with one release
C1_Witness ==
    /\ pc = "done"
    /\ call.unpacked
    /\ call.exc = "HallrException"
    /\ frees = 1

(***************************************************************************)
(* C2: when the output map holds the key ERROR, the call raises            *)
(* HallrException with that entry's value, and the geometry is neither     *)
(* unpacked into a mesh nor applied to an object, whatever the counts and  *)
(* wherever the entry sits.                                                *)
(***************************************************************************)
C2_ErrorKeyRaises ==
    (resultState # "none" /\ HasErrorEntry(rust_result.map)) =>
        /\ ~call.unpacked
        /\ ~call.applied
        /\ call.new_mesh = None
        /\ Len(meshes) = Len(InitialMeshes) + (IF call.create_new THEN 1 ELSE 0)
        /\ \A o \in DOMAIN InitialObjects : objects[o].data = InitialObjects[o].data
        /\ pc \in {"decode", "release", "finally", "done"}
        /\ pc # "decode" =>
              /\ call.exc = "HallrException"
              /\ call.message = FirstErrorValue(rust_result.map)

\* ERROR is the last entry, after a format tag, and the counts are nonzero
C2_Witness ==
    /\ pc = "done"
    /\ Len(rust_result.map) = 2
    /\ rust_result.map[2][1] = "ERROR"
    /\ rust_result.vertex_count > 0
    /\ Len(rust_result.indices) > 0
    /\ call.exc = "HallrException"

(***************************************************************************)
(* C3: once the result is released no step reads it or anything backed by  *)
(* its memory; what the later steps use was copied out while it was live.  *)
(***************************************************************************)
C3_NoReadAfterRelease ==
    /\ ~danglingRead
    /\ (resultState = "freed" /\ call.exc = "none") =>
          /\ call.new_mesh # None
          /\ call.indices_count = Len(rust_result.indices)
          /\ call.return_options = DecodeMap(rust_result.map).options

\* a successful call: the result was released and the mesh applied afterwards
C3_Witness ==
    /\ pc = "done"
    /\ resultState = "freed"
    /\ call.applied
    /\ call.exc = "none"

(***************************************************************************)
(* C4: in create mode, when the call raises after the new object was made, *)
(* that object is no longer in the scene when the error reaches the        *)
(* caller.                                                                 *)
(***************************************************************************)
C4_NewObjectRemovedOnError ==
    (pc = "done" /\ call.create_new /\ call.exc # "none") =>
        \A o \in DOMAIN objects : objects[o].name = "New_Object" => ~objects[o].linked

(***************************************************************************)
(* C7: an EDGES output of odd index count n (n = 1 included) yields        *)
(* exactly n div 2 edges, the leading pairs, and a warning.                *)
(***************************************************************************)
C7_OddEdgesWarn ==
    (UnpackDone /\ UnpackTag = EDGES /\ UnpackN % 2 = 1) =>
        /\ unpackOut.exc = "none"
        /\ Len(unpackOut.mesh.edges) = UnpackN \div 2
        /\ \A i \in 1..(UnpackN \div 2) :
              unpackOut.mesh.edges[i] =
                 <<unpackIn.index_array[2 * i - 1], unpackIn.index_array[2 * i]>>
        /\ unpackOut.warned

(***************************************************************************)
(* C8: an output map without a format tag, or with a tag that is none of   *)
(* the four formats, makes the unpacker raise HallrException; no mesh is   *)
(* returned or put on an object.  The output tag alone selects the         *)
(* interpretation: whatever format the caller asked for, a returned mesh   *)
(* has polygons only under TRIANGULATED and edges only under the two line  *)
(* formats.                                                                *)
(***************************************************************************)
C8_UnknownFormatRaises ==
    call.unpacked =>
        LET tag == DictGet(call.return_options, MESH_FORMAT_TAG, "None")
            block == meshes[Len(meshes)]
        IN  /\ tag \notin MeshFormats =>
                 /\ call.exc = "HallrException"
                 /\ call.new_mesh = None
                 /\ ~call.applied
                 /\ pc \in {"release", "finally", "done"}
                 /\ \A o \in DOMAIN objects : objects[o].data # Len(meshes)
            /\ (tag \in MeshFormats /\ call.new_mesh # None) =>
                 /\ tag # TRIANGULATED => meshes[call.new_mesh].polygons = << >>
                 /\ tag \notin {LINE_WINDOWS, EDGES} =>
                       meshes[call.new_mesh].edges = << >>

\* the caller asked for TRIANGULATED, the output carries an unknown tag
C8_Witness ==
    /\ pc = "done"
    /\ call.unpacked
    /\ call.primary_format = TRIANGULATED
    /\ MESH_FORMAT_TAG \in DOMAIN call.return_options
    /\ call.return_options[MESH_FORMAT_TAG] = "UNKNOWN"
    /\ call.exc = "HallrException"

(***************************************************************************)
(* C9: a TRIANGULATED output is built only when its index count is a       *)
(* multiple of 3, with index_count/3 faces, face k on the indices 3k,      *)
(* 3k+1, 3k+2; otherwise the unpacker reports an error and builds no       *)
(* faces and no leftover loops.                                            *)
(***************************************************************************)
C9_TrianglesOrError ==
    (UnpackDone /\ UnpackTag = TRIANGULATED) =>
        IF UnpackN % 3 = 0
        THEN /\ unpackOut.exc = "none"
             /\ unpackOut.returned
             /\ Len(unpackOut.mesh.polygons) = UnpackN \div 3
             /\ \A k \in 1..(UnpackN \div 3) :
                   Face(unpackOut.mesh, k) =
                      <<unpackIn.index_array[3 * k - 2],
                        unpackIn.index_array[3 * k - 1],
                        unpackIn.index_array[3 * k]>>
        ELSE /\ unpackOut.exc # "none"
             /\ ~unpackOut.returned
             /\ unpackOut.mesh.polygons = << >>
             /\ unpackOut.mesh.loops = << >>

(***************************************************************************)
(* C10: a LINE_WINDOWS output with index buffer idx of length n yields     *)
(* exactly max(n-1, 0) edges, the i-th being (idx[i], idx[i+1]), in order. *)
(***************************************************************************)
C10_LineWindows ==
    (UnpackDone /\ UnpackTag = LINE_WINDOWS) =>
        /\ unpackOut.exc = "none"
        /\ unpackOut.returned
        /\ Len(unpackOut.mesh.edges) = (IF UnpackN >= 1 THEN UnpackN - 1 ELSE 0)
        /\ \A i \in 1..(UnpackN - 1) :
              unpackOut.mesh.edges[i] =
                 <<unpackIn.index_array[i], unpackIn.index_array[i + 1]>>
        /\ unpackOut.mesh.polygons = << >>

\* scenario B: [0,1,2,3] gives [(0,1),(1,2),(2,3)]
C10_Witness ==
    /\ UnpackDone
    /\ UnpackTag = LINE_WINDOWS
    /\ unpackIn.index_array = <<0, 1, 2, 3>>
    /\ unpackOut.mesh.edges = <<<<0, 1>>, <<1, 2>>, <<2, 3>>>>

(***************************************************************************)
(* Helpers of the statements about the extractor.                          *)
(***************************************************************************)
PackDone == packOut.exc # "pending"
PackFaces == Len(packIn.mesh.polygons)
PackNoBuffers == ~packOut.returned /\ packOut.vertices = << >> /\ packOut.indices = << >>

(***************************************************************************)
(* C11: with format TRIANGULATED the extractor raises HallrException when  *)
(* some polygon of the mesh has a corner count other than 3, and when the  *)
(* mesh has no polygon; it then returns no buffers.                        *)
(***************************************************************************)
C11_TriangulatedRejects ==
    (/\ PackDone
     /\ packIn.mesh_format = TRIANGULATED
     /\ \/ PackFaces = 0
        \/ \E k \in 1..PackFaces : packIn.mesh.polygons[k].loop_total # 3) =>
        /\ packOut.exc = "HallrException"
        /\ PackNoBuffers

\* a triangle followed by a quad was rejected
C11_Witness ==
    /\ PackDone
    /\ packIn.mesh_format = TRIANGULATED
    /\ PackFaces = 2
    /\ packIn.mesh.polygons[1].loop_total = 3
    /\ packIn.mesh.polygons[2].loop_total = 4
    /\ packOut.exc = "HallrException"

(***************************************************************************)
(* C12: for a mesh of f >= 1 polygons, all triangles, the extractor with   *)
(* format TRIANGULATED returns an index buffer of length 3f, the corner    *)
(* triples of the polygons one after the other in polygon order, and a     *)
(* vertex buffer of 3 floats per vertex in vertex order.                   *)
(***************************************************************************)
C12_TriangulatedBuffers ==
    (/\ PackDone
     /\ packIn.mesh_format = TRIANGULATED
     /\ PackFaces >= 1
     /\ \A k \in 1..PackFaces : packIn.mesh.polygons[k].loop_total = 3) =>
        /\ packOut.exc = "none"
        /\ packOut.returned
        /\ Len(packOut.indices) = 3 * PackFaces
        /\ \A k \in 1..PackFaces : \A j \in 1..3 :
              packOut.indices[3 * (k - 1) + j] = Face(packIn.mesh, k)[j]
        /\ Len(packOut.vertices) = 3 * packIn.mesh.nverts
        /\ \A v \in 0..(packIn.mesh.nverts - 1) : \A a \in 0..2 :
              /\ packOut.vertices[3 * v + a + 1].vertex = v
              /\ packOut.vertices[3 * v + a + 1].axis = a

\* scenario A: 4 vertices, faces (0,1,2) and (0,2,3) give [0,1,2,0,2,3]
C12_Witness ==
    /\ PackDone
    /\ packIn.mesh_format = TRIANGULATED
    /\ packIn.mesh.nverts = 4
    /\ PackFaces = 2
    /\ Face(packIn.mesh, 1) = <<0, 1, 2>>
    /\ Face(packIn.mesh, 2) = <<0, 2, 3>>
    /\ packOut.indices = <<0, 1, 2, 0, 2, 3>>
    /\ Len(packOut.vertices) = 12

(***************************************************************************)
(* C13: with format EDGES or LINE_WINDOWS the extractor raises             *)
(* HallrException whenever the mesh has at least one polygon, and returns  *)
(* no buffers.                                                             *)
(***************************************************************************)
C13_LineFormatsRejectFaces ==
    (/\ PackDone
     /\ packIn.mesh_format \in {EDGES, LINE_WINDOWS}
     /\ PackFaces >= 1) =>
        /\ packOut.exc = "HallrException"
        /\ PackNoBuffers

\* a mesh of one triangle was rejected in format EDGES
C13_Witness ==
    /\ PackDone
    /\ packIn.mesh_format = EDGES
    /\ PackFaces = 1
    /\ packOut.exc = "HallrException"

(***************************************************************************)
(* C14: in each of the four formats, a mesh that meets the format's        *)
(* topology precondition (one or more faces, all triangles, for            *)
(* TRIANGULATED; no faces for EDGES and LINE_WINDOWS; any mesh for         *)
(* POINT_CLOUD) is extracted: the pair of buffers is returned and nothing  *)
(* is raised.                                                              *)
(***************************************************************************)
C14_EveryFormatExtracts ==
    (/\ PackDone
     /\ packIn.mesh_format \in MeshFormats
     /\ packIn.mesh_format = TRIANGULATED =>
           /\ PackFaces >= 1
           /\ \A k \in 1..PackFaces : packIn.mesh.polygons[k].loop_total = 3
     /\ packIn.mesh_format \in {EDGES, LINE_WINDOWS} => PackFaces = 0) =>
        /\ packOut.exc = "none"
        /\ packOut.returned

(***************************************************************************)
(* C15: a call in which the extractor raises for the primary or for the    *)
(* secondary object makes no native interaction: _load_latest_dylib is not *)
(* called, process_geometry returns no result and free_process_results is  *)
(* not called, up to the end of the call.                                  *)
(***************************************************************************)
ExtractionFails(c) ==
    \/ /\ c.primary_object # None
       /\ PackageMeshData(InitialMeshes[InitialObjects[c.primary_object].data],
                          c.primary_format).exc # "none"
    \/ /\ c.secondary_object # None
       /\ PackageMeshData(InitialMeshes[InitialObjects[c.secondary_object].data],
                          c.secondary_format).exc # "none"

C15_NoNativeAfterExtractionError ==
    (pc # "idle" /\ ExtractionFails(call)) =>
        /\ call.loader_calls = 0
        /\ loadResult = NoResult
        /\ call.rust_lib = None
        /\ resultState = "none"
        /\ frees = 0
        /\ pc \in {"try", "marshal", "finally", "done"}
        /\ pc \in {"finally", "done"} => call.exc = "HallrException"

\* the primary object was extracted and the secondary one was rejected
C15_Witness ==
    /\ pc = "done"
    /\ call.secondary_object = 3
    /\ call.secondary_format = EDGES
    /\ call.exc = "HallrException"
    /\ call.message = "package"
    /\ call.loader_calls = 0

(***************************************************************************)
(* C16: a config mapping without the key ERROR encodes to two parallel     *)
(* arrays and a count, count being the number of entries and the i-th key  *)
(* and value the UTF-8 bytes of the i-th entry, and the result decoder     *)
(* turns those arrays back into the same mapping: same keys, same values.  *)
(***************************************************************************)
C16_ConfigRoundTrip ==
    (/\ codecOut.state = "done"
     /\ \A i \in 1..Len(codecIn) : codecIn[i][1] # ERROR_KEY) =>
        /\ codecOut.map.count = Len(codecIn)
        /\ Len(codecOut.map.keys) = Len(codecIn)
        /\ Len(codecOut.map.values) = Len(codecIn)
        /\ ~codecOut.error
        /\ DOMAIN codecOut.options = {codecIn[i][1] : i \in 1..Len(codecIn)}
        /\ \A i \in 1..Len(codecIn) :
              codecOut.options[codecIn[i][1]] = codecIn[i][2]

(***************************************************************************)
(* C17: every call of process_mesh_with_rust, returning or raising, ends   *)
(* with the active object in the mode the active object had at entry       *)
(* (OBJECT when there was none), and from entry to exit the extraction,    *)
(* the native invocation and the application of the mesh run with the      *)
(* host in OBJECT mode.                                                    *)
(***************************************************************************)
HostMode == IF active = None THEN "OBJECT" ELSE objects[active].mode

C17_ModeRestored ==
    /\ pc \in {"try", "marshal", "load", "invoke", "decode", "unpack",
                "release", "close", "apply", "finally"} => HostMode = "OBJECT"
    /\ pc = "done" =>
          HostMode = (IF call.entry_active = None THEN "OBJECT"
                      ELSE call.original_mode)

\* a call entered in EDIT mode raised, and the object it left active (the
\* new one, not the one active at entry) is in EDIT mode
C17_Witness ==
    /\ pc = "done"
    /\ call.original_mode = "EDIT"
    /\ call.exc # "none"
    /\ active # call.entry_active
    /\ objects[active].mode = "EDIT"

(***************************************************************************)
(* C18: a successful update in place keeps the object (same object, name,  *)
(* transform and links; no object is added) and replaces only its mesh     *)
(* data by the new mesh; the old data block is removed exactly when, after *)
(* the swap, it has no user and no fake-user flag, so it stays whenever    *)
(* another object uses it.                                                 *)
(***************************************************************************)
C18_UpdateInPlace ==
    (pc = "done" /\ ~call.create_new /\ call.exc = "none") =>
        LET target == call.primary_object
            old_mesh == InitialObjects[target].data
        IN  /\ Len(objects) = Len(InitialObjects)
            /\ objects[target].data = call.new_mesh
            /\ call.new_mesh # old_mesh
            /\ ~meshes[call.new_mesh].removed
            /\ [objects[target] EXCEPT !.data = old_mesh, !.mode = "OBJECT"]
                  = InitialObjects[target]
            /\ \A o \in DOMAIN objects \ {target} :
                  [objects[o] EXCEPT !.mode = "OBJECT"] = InitialObjects[o]
            /\ meshes[old_mesh].removed <=>
                  (/\ \A o \in DOMAIN objects : objects[o].data # old_mesh
                   /\ ~meshes[old_mesh].use_fake_user)
            /\ \A m \in DOMAIN meshes \ {old_mesh} : ~meshes[m].removed

\* "Tri" was updated while "Tri.001" still uses the old data block
C18_Witness ==
    /\ pc = "done"
    /\ ~call.create_new
    /\ call.exc = "none"
    /\ call.primary_object = 1
    /\ objects[1].data = call.new_mesh
    /\ objects[4].data = 1
    /\ ~meshes[1].removed

(***************************************************************************)
(* C19: in create mode the undo checkpoint is registered before the call   *)
(* changes the scene: the scene it records is the one the call found,      *)
(* without the new object.                                                 *)
(***************************************************************************)
C19_UndoBeforeMutation ==
    (call.create_new /\ pc \notin {"idle", "try"}) =>
        /\ Len(call.undo_stack) = 1
        /\ call.undo_stack[1].scene = SceneNames(InitialObjects)
        /\ "New_Object" \notin call.undo_stack[1].scene

(***************************************************************************)
(* C20: in both modes, once the native call has succeeded and the mesh is  *)
(* applied, the weld pass has run exactly when the output map holds the    *)
(* vertex-merge key with a value that parses as a number; without the key  *)
(* nothing is merged, with an unparsable value the weld is skipped, and    *)
(* in each case the operation succeeds.                                    *)
(***************************************************************************)
C20_WeldWhenKeyParses ==
    (pc = "done" /\ call.applied) =>
        /\ call.welded <=>
              (/\ VERTEX_MERGE_TAG \in DOMAIN call.return_options
               /\ ParsesAsFloat(call.return_options[VERTEX_MERGE_TAG]))
        /\ call.exc = "none"

(***************************************************************************)
(* C21: for every object sent to the native engine exactly one mechanism   *)
(* conveys its world transform: an object whose world matrix is not the    *)
(* identity never has its vertices pre-multiplied by that matrix and the   *)
(* same matrix passed alongside in the transform buffer of the same call.  *)
(***************************************************************************)
Premultiplied(o) ==
    \E i \in DOMAIN call.native_args.vertices :
        /\ call.native_args.vertices[i].object = o
        /\ call.native_args.vertices[i].space = "world"

MatrixPassed(o) ==
    \E i \in DOMAIN call.native_args.matrices :
        /\ call.native_args.matrices[i].object = o
        /\ call.native_args.matrices[i].matrix = objects[o].matrix_world

C21_OneTransformMechanism ==
    call.native_args.passed =>
        \A o \in DOMAIN InitialObjects :
            objects[o].matrix_world # "identity" =>
                ~(Premultiplied(o) /\ MatrixPassed(o))

(***************************************************************************)
(* C22: with a secondary object the native call receives the primary       *)
(* object's vertices, indices and 16-float matrix followed by the          *)
(* secondary object's; first_vertex_model_1 is the decimal point count of  *)
(* the primary vertices and first_index_model_1 the decimal count of the   *)
(* primary indices (both 0 without a primary object); the mesh-format key  *)
(* is the primary tag followed by the secondary tag; the vertex count      *)
(* passed is the float count divided by 3.                                 *)
(***************************************************************************)
IsDecimal(str) ==
    /\ Len(str) > 0
    /\ \A i \in DOMAIN str : \E d \in DOMAIN Digits : Digits[d] = str[i]

RECURSIVE DecimalValue(_)
DecimalValue(str) ==
    IF str = << >> THEN 0
    ELSE 10 * DecimalValue(SubSeq(str, 1, Len(str) - 1))
         + (CHOOSE d \in 0..9 : Digits[d + 1] = str[Len(str)])

SentObjects ==
    (IF call.primary_object # None THEN <<call.primary_object>> ELSE << >>) \o
    (IF call.secondary_object # None THEN <<call.secondary_object>> ELSE << >>)

SentFormats ==
    (IF call.primary_object # None THEN <<call.primary_format>> ELSE << >>) \o
    (IF call.secondary_object # None THEN <<call.secondary_format>> ELSE << >>)

PrimaryPoints ==
    IF call.primary_object # None
    THEN meshes[objects[call.primary_object].data].nverts ELSE 0

PrimaryIndices ==
    IF call.primary_object # None
    THEN PackageMeshData(meshes[objects[call.primary_object].data],
                         call.primary_format).indices
    ELSE << >>

SecondaryPoints == meshes[objects[call.secondary_object].data].nverts

SecondaryIndices ==
    PackageMeshData(meshes[objects[call.secondary_object].data],
                    call.secondary_format).indices

C22_TwoObjectLayout ==
    (pc = "decode" /\ call.secondary_object # None) =>
        LET a == call.native_args
            np == PrimaryPoints
        IN  /\ a.passed
            /\ Len(a.vertices) = 3 * (np + SecondaryPoints)
            /\ \A i \in DOMAIN a.vertices :
                  /\ a.vertices[i].object =
                        IF i <= 3 * np THEN call.primary_object
                        ELSE call.secondary_object
                  /\ a.vertices[i].vertex =
                        IF i <= 3 * np THEN (i - 1) \div 3
                        ELSE (i - 3 * np - 1) \div 3
            /\ a.indices = PrimaryIndices \o SecondaryIndices
            /\ Len(a.matrices) = 16 * Len(SentObjects)
            /\ \A i \in DOMAIN a.matrices :
                  a.matrices[i].object = SentObjects[((i - 1) \div 16) + 1]
            /\ IsDecimal(a.map["first_vertex_model_1"])
            /\ DecimalValue(a.map["first_vertex_model_1"]) = np
            /\ IsDecimal(a.map["first_index_model_1"])
            /\ DecimalValue(a.map["first_index_model_1"]) = Len(PrimaryIndices)
            /\ a.map[MESH_FORMAT_TAG] = SentFormats
            /\ 3 * a.vertex_count = Len(a.vertices)
            /\ a.indices_count = Len(a.indices)
            /\ a.matrices_len = Len(a.matrices)

\* "Tri" and "Wire" were sent together
C22_Witness ==
    /\ pc = "decode"
    /\ call.primary_object = 1
    /\ call.secondary_object = 2
    /\ call.secondary_format = EDGES
    /\ call.native_args.map["first_vertex_model_1"] = <<"3">>
    /\ call.native_args.map["first_index_model_1"] = <<"3">>
    /\ call.native_args.indices = <<0, 1, 2, 0, 1, 1, 2>>

(***************************************************************************)
(* C23: on every exit path of process_mesh_with_rust, normal or raised,    *)
(* the view layer update is performed exactly once, after the last mesh    *)
(* mutation and before the caller's original mode is restored.             *)
(***************************************************************************)
TracePositions(event) == {i \in DOMAIN call.trace : call.trace[i] = event}

C23_UpdateOnceBeforeRestore ==
    pc = "done" =>
        /\ Cardinality(TracePositions("view_layer.update")) = 1
        /\ \A u \in TracePositions("view_layer.update") :
              /\ \A i \in TracePositions("mutate") : i < u
              /\ \A i \in TracePositions("mode_set restore") : u < i
        /\ (call.original_mode # "OBJECT") =>
              TracePositions("mode_set restore") # {}

\* two exits from EDIT mode: a raise after the mesh was applied, a normal return
C23_Witness ==
    /\ pc = "done"
    /\ call.original_mode = "EDIT"
    /\ call.exc # "none"
    /\ call.applied
    /\ TracePositions("mutate") # {}

C23_WitnessReturn ==
    /\ pc = "done"
    /\ call.original_mode = "EDIT"
    /\ call.exc = "none"
    /\ call.applied

(***************************************************************************)
(* C24: in development mode process_geometry and free_process_results are  *)
(* never invoked through a library handle that _ctypes_close_library has   *)
(* already closed: after a call closed the library, the next call invokes  *)
(* through a freshly loaded handle.                                        *)
(***************************************************************************)
C24_NoInvokeThroughClosedHandle ==
    (DEV_MODE /\ pc \in {"invoke", "decode", "unpack", "release"}) =>
        ~handles[call.rust_lib].closed

(***************************************************************************)
(* C25: in update mode, when process_mesh_with_rust raises for any reason  *)
(* the target object still has the data block it had before the call,      *)
(* with the same geometry, and that block has not been removed.            *)
(***************************************************************************)
C25_FailedUpdateLeavesObject ==
    (pc = "done" /\ ~call.create_new /\ call.exc # "none") =>
        LET before == InitialObjects[call.primary_object].data
        IN  /\ objects[call.primary_object].data = before
            /\ ~meshes[before].removed
            /\ meshes[before].nverts = InitialMeshes[before].nverts
            /\ meshes[before].polygons = InitialMeshes[before].polygons
            /\ meshes[before].edges = InitialMeshes[before].edges

(***************************************************************************)
(* C26: whenever _unpackage_mesh_from_ffi raises (missing or unrecognized  *)
(* format tag) no data block it created remains in the host's mesh         *)
(* collection: the blocks after the failed call are those before it.       *)
(***************************************************************************)
LiveBlocks(mshs) == {m \in DOMAIN mshs : ~mshs[m].removed}

\* the blocks the host held when the unpacker was entered
BlocksBeforeUnpack ==
    DOMAIN InitialMeshes \cup
        (IF call.create_new THEN {Len(InitialMeshes) + 1} ELSE {})

C26_FailedUnpackLeavesNoBlock ==
    (pc = "release" /\ call.exc # "none" /\ call.message = "unpack") =>
        LiveBlocks(meshes) = BlocksBeforeUnpack

(***************************************************************************)
(* C27: the only entries process_mesh_with_rust adds to or changes in the  *)
(* caller's config mapping are the mesh-format key (only when at least one *)
(* object is supplied) and first_vertex_model_1 / first_index_model_1      *)
(* (only when a secondary object is supplied); every other entry is kept,  *)
(* none is removed, with no objects the mapping is unchanged, and entries  *)
(* of the output map are never written into it.                            *)
(***************************************************************************)
OffsetKeys == {"first_vertex_model_1", "first_index_model_1"}

Written(k) ==
    \/ k \notin DOMAIN call.caller_config
    \/ call.config[k] # call.caller_config[k]

C27_ConfigFrame ==
    (pc # "idle") =>
        /\ DOMAIN call.caller_config \subseteq DOMAIN call.config
        /\ \A k \in DOMAIN call.config :
              Written(k) =>
                  \/ /\ k = MESH_FORMAT_TAG
                     /\ SentObjects # << >>
                     /\ call.config[k] = SentFormats
                  \/ /\ k \in OffsetKeys
                     /\ call.secondary_object # None
        /\ (SentObjects = << >>) => call.config = call.caller_config
        /\ \A k \in DOMAIN call.return_options \ {MESH_FORMAT_TAG} :
              k \in DOMAIN call.config => k \in DOMAIN call.caller_config

\* a call without objects went through with a reused mapping and received
\* an output map
C27_Witness ==
    /\ pc = "done"
    /\ SentObjects = << >>
    /\ MESH_FORMAT_TAG \in DOMAIN call.caller_config
    /\ call.config = call.caller_config
    /\ call.return_options # << >>

\* a two-object call overwrote the three keys of a reused mapping
C27_WitnessWritten ==
    /\ pc = "done"
    /\ call.secondary_object # None
    /\ MESH_FORMAT_TAG \in DOMAIN call.caller_config
    /\ \A k \in OffsetKeys \cup {MESH_FORMAT_TAG} : Written(k)

(***************************************************************************)
(* Graph notions of the statements below, written from the claims' words.  *)
(***************************************************************************)
Joined(mesh, u, w) ==
    \E i \in DOMAIN mesh.edges :
        mesh.edges[i] = <<u, w>> \/ mesh.edges[i] = <<w, u>>

Degree(mesh, v) ==
    Cardinality({i \in DOMAIN mesh.edges :
                    mesh.edges[i][1] = v \/ mesh.edges[i][2] = v})

Neighbours(mesh, v) == {w \in 0..(mesh.nverts - 1) : Joined(mesh, v, w)}

Touched(mesh) == {v \in 0..(mesh.nverts - 1) : Degree(mesh, v) > 0}

\* the vertices reached from S along edges into vertices of the set through
RECURSIVE ReachedFrom(_, _, _)
ReachedFrom(mesh, S, through) ==
    LET next == S \cup {w \in through : \E u \in S : Joined(mesh, u, w)}
    IN  IF next = S THEN S ELSE ReachedFrom(mesh, next, through)

SingleClosedCycle(mesh) ==
    /\ Len(mesh.edges) >= 1
    /\ \A v \in Touched(mesh) : Degree(mesh, v) = 2
    /\ \A v \in Touched(mesh) :
          ReachedFrom(mesh, {v}, 0..(mesh.nverts - 1)) = Touched(mesh)

(***************************************************************************)
(* C28: is_loop(mesh) returns True exactly when the edges of the mesh form *)
(* one single closed cycle: at least one edge, every vertex touched by an  *)
(* edge has exactly two incident edges, and all edges are connected.  It   *)
(* returns False for a mesh with no edges, an open polyline, a vertex of   *)
(* three or more edges, and two or more disjoint cycles.                   *)
(***************************************************************************)
C28_IsLoopExactlySingleCycle ==
    gpc = "done" => (loop_result = "True" <=> SingleClosedCycle(bm))

(***************************************************************************)
(* C29: after MESH_OT_hallr_select_intersection_vertices.execute the       *)
(* selected vertices are exactly the vertices connected to more than two   *)
(* other vertices; a corner of a lone triangle face is not selected, and   *)
(* nothing is selected in a mesh without such vertices.                    *)
(***************************************************************************)
C29_SelectsIntersections ==
    gpc = "done" =>
        bm.select = {v \in 0..(bm.nverts - 1) :
                        Cardinality(Neighbours(bm, v)) > 2}

(***************************************************************************)
(* C30: MESH_OT_hallr_select_vertices_until_intersection.execute           *)
(* terminates on every wire-frame mesh, and then the selected set is the   *)
(* initially selected set together with every vertex of at most two        *)
(* incident edges reachable from an initially selected vertex along edges  *)
(* through vertices of at most two incident edges; no vertex with more     *)
(* than two incident edges becomes newly selected and the walk does not    *)
(* continue past one.                                                      *)
(***************************************************************************)
WalkReach ==
    LET atMostTwo == {w \in 0..(bm.nverts - 1) : Degree(bm, w) <= 2}
    IN  ReachedFrom(bm, selected_before \cap atMostTwo, atMostTwo)

C30_WalkSelectsUntilIntersection ==
    /\ <>(gpc = "done")
    /\ [](gpc = "done" =>
            /\ bm.select = selected_before \cup WalkReach
            /\ \A v \in bm.select \ selected_before : Degree(bm, v) <= 2)

\* the walk went from vertex 1 to vertex 2 and stopped at vertex 0, which has
\* three edges; vertex 3 behind it stayed unselected
C30_Witness ==
    /\ gpc = "done"
    /\ selected_before = {1}
    /\ Degree(bm, 0) = 3
    /\ Degree(bm, 3) = 1
    /\ Joined(bm, 1, 2)
    /\ bm.select = {1, 2}

=============================================================================
